---- MODULE Spec2Model ----
(***************************************************************************)
(* Model of app.py, the Streamlit dashboard "Forecasting Penjualan Instax". *)
(*                                                                         *)
(* Streamlit runs the whole script from top to bottom on every user        *)
(* interaction, so one interaction is one action: it calls load_data and   *)
(* load_model (both memoised by their decorators), renders the selected    *)
(* page and then the sidebar footer.  What the script prints is kept in    *)
(* the variable out.                                                       *)
(*                                                                         *)
(* Dates are day numbers counted from 2023-12-01 (day 0); months are       *)
(* absolute month numbers year * 12 + (month - 1).                         *)
(***************************************************************************)
EXTENDS Integers, Sequences, FiniteSets, TLC

VARIABLES
    files,           \* the three input files on disk: path -> content
    data_cache,      \* st.cache_data store of load_data: path -> entry
    resource_cache,  \* st.cache_resource store of load_model: path -> entry
    bodyRuns,        \* path -> number of times the loader body ran for it
    df_raw,          \* module globals bound at app.py:68
    df_daily,
    df_monthly,
    sarima_model,    \* module global bound at app.py:69
    hw_model,        \* module global bound at app.py:70
    selection,       \* sidebar radio widget state
    periods,         \* slider widget state
    out,             \* what the last script run rendered
    envChanges       \* number of changes of the files so far

vars == <<files, data_cache, resource_cache, bodyRuns, df_raw, df_daily,
          df_monthly, sarima_model, hw_model, selection, periods, out,
          envChanges>>

----------------------------------------------------------------------------
(* Optional values: Python's None and a present value.                     *)

None == <<>>
Some(x) == <<x>>
IsNone(o) == o = <<>>
Val(o) == o[1]

(* File paths, app.py:22-24.                                               *)
DATA_FILE == "instax_sales_transaction_data.csv"
SARIMA_MODEL_FILE == "model_sarima.pkl"
HOLTWINTERS_MODEL_FILE == "model_holtwinters.pkl"
Paths == {DATA_FILE, SARIMA_MODEL_FILE, HOLTWINTERS_MODEL_FILE}

(* A file is missing, unreadable (any other exception), or has content.    *)
Missing == [kind |-> "missing"]
Corrupt == [kind |-> "corrupt"]
Content(c) == [kind |-> "ok", content |-> c]

----------------------------------------------------------------------------
(* Bounds of the model.                                                    *)

MaxRecords == 3      \* rows of a transaction file
MaxEnvChanges == 1   \* times the files on disk change while the app runs

----------------------------------------------------------------------------
(* The calendar pandas uses for resample('D') and resample('M').           *)

EpochMonth == 2023 * 12 + 11     \* 2023-12, the month of day 0

IsLeap(y) == (y % 4 = 0 /\ y % 100 # 0) \/ y % 400 = 0

DaysInMonth(m) ==
    LET y == m \div 12
        k == (m % 12) + 1
    IN  IF k = 2 THEN (IF IsLeap(y) THEN 29 ELSE 28)
        ELSE IF k \in {4, 6, 9, 11} THEN 30 ELSE 31

RECURSIVE MonthFrom(_, _, _)
(* month of day d, walking from month m whose first day is day s *)
MonthFrom(d, m, s) ==
    IF d < s + DaysInMonth(m) THEN m ELSE MonthFrom(d, m + 1, s + DaysInMonth(m))

MonthOf(d) == MonthFrom(d, EpochMonth, 0)

(* days from day 0 to the first day of month m *)
RECURSIVE MonthStart(_)
MonthStart(m) == IF m <= EpochMonth THEN 0 ELSE MonthStart(m - 1) + DaysInMonth(m - 1)

(* the days of month m *)
MonthDays(m) == MonthStart(m)..(MonthStart(m) + DaysInMonth(m) - 1)

----------------------------------------------------------------------------
(* Transaction files.  A row is [Tanggal |-> <<year, month, day>>, Qty].    *)

SampleDates ==
    { <<2023, 12, 1>>, <<2023, 12, 31>>, <<2024, 1, 1>>, <<2024, 1, 3>>,
      <<2024, 2, 29>>, <<2024, 2, 30>> }
SampleQty == {0, 3, 5}
Rows == [Tanggal : SampleDates, Qty : SampleQty]

RECURSIVE SeqsUpTo(_, _)
SeqsUpTo(S, n) ==
    IF n = 0 THEN {<<>>}
    ELSE LET shorter == SeqsUpTo(S, n - 1)
         IN  shorter \cup {Append(s, x) : s \in {t \in shorter : Len(t) = n - 1}, x \in S}

(* pd.to_datetime on one cell, app.py:35: a calendar date becomes a         *)
(* timestamp (a day number here); anything else raises.                     *)
Parseable(t) == t[2] \in 1..12 /\ t[3] \in 1..DaysInMonth(t[1] * 12 + t[2] - 1)
ToDatetime(t) == MonthStart(t[1] * 12 + t[2] - 1) + t[3] - 1

(* ascending sequence of the elements of a finite set of integers *)
RECURSIVE SortedSeq(_)
SortedSeq(S) ==
    IF S = {} THEN <<>>
    ELSE LET lo == CHOOSE x \in S : \A y \in S : x <= y
         IN  <<lo>> \o SortedSeq(S \ {lo})

(* sum of Qty over the rows of df whose Tanggal lies in the bin *)
RECURSIVE QtyWhere(_, _)
QtyWhere(df, bin) ==
    IF df = <<>> THEN 0
    ELSE (IF Head(df).Tanggal \in bin THEN Head(df).Qty ELSE 0) + QtyWhere(Tail(df), bin)

(* df.groupby('Tanggal')['Qty'].sum().reset_index(), app.py:38: one row per *)
(* distinct timestamp, keys sorted, Qty summed within the group.            *)
GroupBySum(df) ==
    LET keys == SortedSeq({df[i].Tanggal : i \in 1..Len(df)})
    IN  [i \in 1..Len(keys) |->
            [Tanggal |-> keys[i],
             Qty |-> QtyWhere(df, {keys[i]})]]

(* ResampleD without the zero fill: only the days that have a row.          *)
ResampleD_nofill(g) == g

(* .set_index('Tanggal')['Qty'].resample('D').sum(), app.py:39: one bin per *)
(* calendar day from the first to the last key, an empty bin sums to 0.     *)
ResampleD(g) ==
    IF g = <<>> THEN <<>>
    ELSE LET first == g[1].Tanggal
             last == g[Len(g)].Tanggal
         IN  [i \in 1..(last - first + 1) |->
                 [Tanggal |-> first + i - 1,
                  Qty |-> QtyWhere(g, {first + i - 1})]]

(* ResampleM with every bin closed one day early: the last day of a month   *)
(* is dropped from its month.                                               *)
ResampleM_short(daily) ==
    IF daily = <<>> THEN <<>>
    ELSE LET first == MonthOf(daily[1].Tanggal)
             last == MonthOf(daily[Len(daily)].Tanggal)
         IN  [i \in 1..(last - first + 1) |->
                 [Bulan |-> first + i - 1,
                  Qty |-> QtyWhere(daily,
                            MonthStart(first + i - 1)
                              ..(MonthStart(first + i - 1) + DaysInMonth(first + i - 1) - 2))]]

(* daily_sales.resample('M').sum() and index.to_period('M'), app.py:42-43:  *)
(* one bin per calendar month from the month of the first day to the month  *)
(* of the last day, labelled by the month.                                  *)
ResampleM(daily) ==
    IF daily = <<>> THEN <<>>
    ELSE LET first == MonthOf(daily[1].Tanggal)
             last == MonthOf(daily[Len(daily)].Tanggal)
         IN  [i \in 1..(last - first + 1) |->
                 [Bulan |-> first + i - 1,
                  Qty |-> QtyWhere(daily, MonthDays(first + i - 1))]]

(* The body of load_data, app.py:29-51.  st.error is the inline message.    *)
load_data_body(file, file_path) ==
    IF file.kind = "missing"
      THEN [raw |-> None, daily |-> None, monthly |-> None,
            error |-> <<"File data tidak ditemukan", file_path>>]
    ELSE IF file.kind = "corrupt"
              \/ \E i \in 1..Len(file.content) : ~Parseable(file.content[i].Tanggal)
      THEN [raw |-> None, daily |-> None, monthly |-> None,
            error |-> <<"Terjadi kesalahan saat memuat atau memproses data", file_path>>]
    ELSE LET df == [i \in 1..Len(file.content) |->
                       [Tanggal |-> ToDatetime(file.content[i].Tanggal),
                        Qty |-> file.content[i].Qty]]
             daily_sales == ResampleD(GroupBySum(df))
             monthly_sales == ResampleM(daily_sales)
         IN  [raw |-> Some(df), daily |-> Some(daily_sales),
              monthly |-> Some(monthly_sales), error |-> <<>>]

(* st.cache_data, app.py:28: the body runs when the path has no entry, its   *)
(* return value (and the st.error it emitted) is stored and replayed later.  *)
load_data(cache, fs, file_path) ==
    IF IsNone(cache[file_path])
      THEN LET r == load_data_body(fs[file_path], file_path)
           IN  [value |-> r, cache |-> [cache EXCEPT ![file_path] = Some(r)], ran |-> 1]
      ELSE [value |-> Val(cache[file_path]), cache |-> cache, ran |-> 0]

----------------------------------------------------------------------------
(* Specification of load_data alone: Init draws the transaction file, the   *)
(* one action is the call at app.py:68.                                     *)

DataFiles ==
    {Missing, Corrupt}
      \cup {Content(c) : c \in {r \in SeqsUpTo(Rows, MaxRecords) : r # <<>>}}

EmptyOut ==
    [ran |-> FALSE, page |-> "", warning |-> FALSE, errors |-> {}, metrics |-> {},
     touched |-> {}, fitChart |-> FALSE, slider |-> FALSE, button |-> FALSE,
     calls |-> {}, table |-> None, forecastChart |-> FALSE, footer |-> None,
     exception |-> "", onDisk |-> [p \in Paths |-> ""]]

MinPeriods == 1
MaxPeriods == 12
DefaultPeriods == 3
HomePage == "Penjelasan Aplikasi"
AnalysisPage == "Analisis Model"
ForecastPage == "Uji Coba & Pelatihan"
Pages == {HomePage, AnalysisPage, ForecastPage}

InitCommon ==
    /\ data_cache = [p \in {DATA_FILE} |-> None]
    /\ resource_cache = [p \in {SARIMA_MODEL_FILE, HOLTWINTERS_MODEL_FILE} |-> None]
    /\ bodyRuns = [p \in Paths |-> 0]
    /\ df_raw = None /\ df_daily = None /\ df_monthly = None
    /\ sarima_model = None /\ hw_model = None
    /\ selection = HomePage
    /\ periods = DefaultPeriods
    /\ out = EmptyOut
    /\ envChanges = 0

InitData ==
    /\ \E f \in DataFiles :
          files = [p \in Paths |-> IF p = DATA_FILE THEN f ELSE Missing]
    /\ InitCommon

CallLoadData ==
    /\ IsNone(data_cache[DATA_FILE])
    /\ LET r == load_data(data_cache, files, DATA_FILE)
       IN  /\ data_cache' = r.cache
           /\ bodyRuns' = [bodyRuns EXCEPT ![DATA_FILE] = @ + r.ran]
           /\ df_raw' = r.value.raw
           /\ df_daily' = r.value.daily
           /\ df_monthly' = r.value.monthly
           /\ out' = [out EXCEPT !.errors = {r.value.error} \ {<<>>}]
    /\ UNCHANGED <<files, resource_cache, sarima_model, hw_model, selection,
                   periods, envChanges>>

NextData == CallLoadData

SpecData == InitData /\ [][NextData]_vars

----------------------------------------------------------------------------
(* Model artifacts.  A pickled model is opaque to app.py, which only probes *)
(* attributes and calls methods on it; an artifact is described by what     *)
(* those probes and calls find.                                             *)
(*   attrs          attributes that exist on the object                     *)
(*   fittedStored   fittedvalues is a Series held by the object (TRUE) or   *)
(*                  one built anew on every access (FALSE)                  *)
(*   fittedIndex    kind of the index of fittedvalues                       *)
(*   forecastIndex  kind of the index of the forecast the model returns     *)
(*   trainEnd       last month of the series the model was fitted on        *)
(*   raises         the forecast call raises                                *)

BaseSarima ==
    [attrs |-> {"aic", "bic", "llf", "order", "seasonal_order"},
     fittedStored |-> FALSE, fittedIndex |-> "period", forecastIndex |-> "period",
     trainEnd |-> 2024 * 12 + 1, raises |-> FALSE]

BaseHW ==
    [attrs |-> {"aic", "bic", "sse", "model.seasonal"},
     fittedStored |-> FALSE, fittedIndex |-> "datetime", forecastIndex |-> "period",
     trainEnd |-> 2024 * 12 + 1, raises |-> FALSE]

SarimaArtifacts ==
    { BaseSarima,
      [BaseSarima EXCEPT !.attrs = @ \ {"llf"}],
      [BaseSarima EXCEPT !.attrs = @ \ {"order"}],
      [BaseSarima EXCEPT !.raises = TRUE],
      [BaseSarima EXCEPT !.trainEnd = @ - 1],
      [BaseSarima EXCEPT !.fittedStored = TRUE] }

HWArtifacts ==
    { BaseHW,
      [BaseHW EXCEPT !.attrs = @ \ {"sse"}],
      [BaseHW EXCEPT !.attrs = @ \ {"model.seasonal"}],
      [BaseHW EXCEPT !.forecastIndex = "datetime"],
      [BaseHW EXCEPT !.fittedIndex = "period"],
      [BaseHW EXCEPT !.trainEnd = @ - 1],
      [BaseHW EXCEPT !.fittedStored = TRUE] }

BaseData ==
    << [Tanggal |-> <<2023, 12, 31>>, Qty |-> 3],
       [Tanggal |-> <<2024, 1, 3>>, Qty |-> 5],
       [Tanggal |-> <<2024, 2, 29>>, Qty |-> 3] >>

BaseFile(p) ==
    IF p = DATA_FILE THEN Content(BaseData)
    ELSE IF p = SARIMA_MODEL_FILE THEN Content(BaseSarima)
    ELSE Content(BaseHW)

(* The body of load_model, app.py:54-65.                                    *)
load_model_body(file, file_path) ==
    IF file.kind = "missing"
      THEN [model |-> None, error |-> <<"File model tidak ditemukan", file_path>>]
    ELSE IF file.kind = "corrupt"
      THEN [model |-> None, error |-> <<"Terjadi kesalahan saat memuat model", file_path>>]
    ELSE [model |-> Some(file.content), error |-> <<>>]

(* load_model that keeps no entry for a failed load.                        *)
load_model_forgets_failure(cache, fs, file_path) ==
    IF IsNone(cache[file_path])
      THEN LET r == load_model_body(fs[file_path], file_path)
           IN  [value |-> r,
                cache |-> IF IsNone(r.model) THEN cache
                          ELSE [cache EXCEPT ![file_path] = Some(r)],
                ran |-> 1]
      ELSE [value |-> Val(cache[file_path]), cache |-> cache, ran |-> 0]

(* st.cache_resource, app.py:53: as st.cache_data, but the stored object is *)
(* handed out itself, not a copy of it.                                     *)
load_model(cache, fs, file_path) ==
    IF IsNone(cache[file_path])
      THEN LET r == load_model_body(fs[file_path], file_path)
           IN  [value |-> r, cache |-> [cache EXCEPT ![file_path] = Some(r)], ran |-> 1]
      ELSE [value |-> Val(cache[file_path]), cache |-> cache, ran |-> 0]

----------------------------------------------------------------------------
(* Views.  A view returns the fields of out it sets (view) and the two      *)
(* model objects as it leaves them (sarima, hw).                            *)

Warned(o, sm, hm) ==
    [view |-> [o EXCEPT !.warning = TRUE], sarima |-> sm, hw |-> hm]

(* home_page, app.py:74-104: static text. *)
home_page(o, sm, hm) == [view |-> o, sarima |-> sm, hw |-> hm]

(* ReadMetrics with one try per attribute *)
ReadMetrics_each(model, names) ==
    [n \in names |-> IF n \in model.attrs THEN n ELSE "N/A"]

(* the try blocks at app.py:119-131: the three attributes of a model are    *)
(* read in one try, so one missing attribute replaces all three values by   *)
(* "N/A".  A value that was read is shown formatted, written here as the    *)
(* attribute's name.                                                        *)
ReadMetrics(model, names) ==
    IF names \subseteq model.attrs
      THEN [n \in names |-> n]
      ELSE [n \in names |-> "N/A"]

Raised(o, exc, sm, hm) ==
    [view |-> [o EXCEPT !.exception = exc], sarima |-> sm, hw |-> hm]

(* a guard that forgets the monthly series *)
AnalysisGuard_models_only(sm, hm, dm) == IsNone(sm) \/ IsNone(hm)

(* the guard at app.py:111 *)
AnalysisGuard(sm, hm, dm) == IsNone(sm) \/ IsNone(hm) \/ IsNone(dm)

(* model_analysis_page, app.py:106-186 *)
model_analysis_page(o, sm, hm, dm) ==
    IF AnalysisGuard(sm, hm, dm) THEN Warned(o, sm, hm)
    ELSE
    LET s == Val(sm)
        h == Val(hm)
        sMet == ReadMetrics(s, {"aic", "bic", "llf"})
        hMet == ReadMetrics(h, {"aic", "bic", "sse"})
        o1 == [o EXCEPT !.touched = @ \cup {"sarima_model", "hw_model"}]
        o2 == [o1 EXCEPT !.metrics = @ \cup {<<"SARIMA", "AIC", sMet["aic"]>>,
                                              <<"SARIMA", "BIC", sMet["bic"]>>}]
        o3 == [o2 EXCEPT !.metrics = @ \cup {<<"Holt-Winters", "AIC", hMet["aic"]>>,
                                              <<"Holt-Winters", "BIC", hMet["bic"]>>,
                                              <<"Holt-Winters", "SSE", hMet["sse"]>>}]
        o4 == [o3 EXCEPT !.touched = @ \cup {"df_monthly"}]
        \* app.py:156-158: the index of the SARIMA fitted values is assigned
        s1 == IF s.fittedStored THEN [s EXCEPT !.fittedIndex = "datetime"] ELSE s
    IN  IF ~({"order", "seasonal_order"} \subseteq s.attrs)          \* app.py:137
          THEN Raised(o1, "AttributeError", sm, hm)
        ELSE IF "model.seasonal" \notin h.attrs                       \* app.py:143
          THEN Raised(o2, "AttributeError", sm, hm)
        ELSE IF h.fittedIndex = "period"      \* app.py:163, PeriodIndex.to_period
          THEN Raised(o4, "AttributeError", Some(s1), hm)
        ELSE [view |-> [o4 EXCEPT !.fitChart = TRUE], sarima |-> Some(s1), hw |-> hm]

(* strftime('%Y-%m') of the timestamp of a period, app.py:219-223, 239-243  *)
StrfYm(day) == <<MonthOf(day) \div 12, (MonthOf(day) % 12) + 1>>
ToTimestamp(month) == MonthStart(month)

(* the index of a forecast of steps months: the months after trainEnd *)
ForecastKeys(model, steps) ==
    [k \in 1..steps |-> StrfYm(ToTimestamp(model.trainEnd + k))]

(* app.py:212-231 *)
SarimaForecast(s, steps) ==
    IF s.raises \/ s.forecastIndex # "period" THEN None
    ELSE Some([columns |-> <<"SARIMA Prediksi (Qty)", "SARIMA Batas Bawah",
                             "SARIMA Batas Atas">>,
               index |-> ForecastKeys(s, steps)])

(* app.py:234-247 *)
HWForecast(h, steps) ==
    IF h.raises \/ h.forecastIndex # "period" THEN None
    ELSE Some([columns |-> <<"Holt-Winters Prediksi (Qty)">>,
               index |-> ForecastKeys(h, steps)])

InIndex(t, key) == \E i \in 1..Len(t.index) : t.index[i] = key

(* a join that keeps only the months both tables have *)
Join_inner(left, right) ==
    LET Both(key) == InIndex(right, key)
    IN  [columns |-> left.columns \o right.columns,
         index |-> SelectSeq(left.index, Both),
         nan |-> {}]

(* sarima_results.join(hw_results), app.py:252: a left join on the index;   *)
(* nan holds the months whose right-hand columns have no value.             *)
Join(left, right) ==
    [columns |-> left.columns \o right.columns,
     index |-> left.index,
     nan |-> {left.index[i] : i \in {j \in 1..Len(left.index) : ~InIndex(right, left.index[j])}}]

(* a combined table built from whichever forecast succeeded *)
Combine_any(sr, hr) ==
    IF ~IsNone(sr) /\ ~IsNone(hr) THEN Some(Join(Val(sr), Val(hr)))
    ELSE IF ~IsNone(sr) THEN Some(Val(sr) @@ [nan |-> {}])
    ELSE IF ~IsNone(hr) THEN Some(Val(hr) @@ [nan |-> {}])
    ELSE None

(* app.py:250-253: the table exists only when both forecasts succeeded *)
Combine(sr, hr) ==
    IF ~IsNone(sr) /\ ~IsNone(hr) THEN Some(Join(Val(sr), Val(hr))) ELSE None

(* a guard that forgets the monthly series *)
ForecastGuard_models_only(sm, hm, dm) == IsNone(sm) \/ IsNone(hm)

(* the guard at app.py:193 *)
ForecastGuard(sm, hm, dm) == IsNone(sm) \/ IsNone(hm) \/ IsNone(dm)

(* forecast_page with both forecasts in one try: a SARIMA failure skips the *)
(* Holt-Winters call                                                        *)
forecast_page_one_try(o, sm, hm, dm, steps, clicked) ==
    IF ForecastGuard(sm, hm, dm) THEN Warned(o, sm, hm)
    ELSE
    LET o1 == [o EXCEPT !.slider = TRUE, !.button = TRUE]
        sr == SarimaForecast(Val(sm), steps)
        hr == IF IsNone(sr) THEN None ELSE HWForecast(Val(hm), steps)
        combined == Combine(sr, hr)
        o2 == [o1 EXCEPT
                 !.touched = @ \cup {"sarima_model"}
                               \cup (IF IsNone(sr) THEN {} ELSE {"hw_model"})
                               \cup (IF IsNone(combined) THEN {} ELSE {"df_monthly"}),
                 !.calls = {"sarima_model.get_forecast"}
                             \cup (IF IsNone(sr) THEN {} ELSE {"hw_model.forecast"}),
                 !.errors = @ \cup (IF IsNone(sr)
                                      THEN {<<"Gagal melakukan peramalan SARIMA", "">>}
                                    ELSE IF IsNone(hr)
                                      THEN {<<"Gagal melakukan peramalan Holt-Winters", "">>}
                                    ELSE {}),
                 !.table = combined,
                 !.forecastChart = ~IsNone(combined)]
    IN  [view |-> IF clicked THEN o2 ELSE o1, sarima |-> sm, hw |-> hm]

(* forecast_page, app.py:188-299 *)
forecast_page(o, sm, hm, dm, steps, clicked) ==
    IF ForecastGuard(sm, hm, dm) THEN Warned(o, sm, hm)
    ELSE
    LET o1 == [o EXCEPT !.slider = TRUE, !.button = TRUE]
        sr == SarimaForecast(Val(sm), steps)
        hr == HWForecast(Val(hm), steps)
        combined == Combine(sr, hr)
        o2 == [o1 EXCEPT
                 !.touched = @ \cup {"sarima_model", "hw_model"}
                               \cup (IF IsNone(combined) THEN {} ELSE {"df_monthly"}),
                 !.calls = {"sarima_model.get_forecast", "hw_model.forecast"},
                 !.errors = @ \cup (IF IsNone(sr)
                                      THEN {<<"Gagal melakukan peramalan SARIMA", "">>}
                                      ELSE {})
                              \cup (IF IsNone(hr)
                                      THEN {<<"Gagal melakukan peramalan Holt-Winters", "">>}
                                      ELSE {}),
                 !.table = combined,
                 !.forecastChart = ~IsNone(combined)]
    IN  [view |-> IF clicked THEN o2 ELSE o1, sarima |-> sm, hw |-> hm]

(* the sidebar footer, app.py:319-323 *)
Footer(raw) ==
    IF IsNone(raw) THEN None
    ELSE LET days == {Val(raw)[i].Tanggal : i \in 1..Len(Val(raw))}
         IN  Some([rows |-> Len(Val(raw)),
                   from |-> StrfYm(CHOOSE d \in days : \A e \in days : d <= e),
                   to |-> StrfYm(CHOOSE d \in days : \A e \in days : e <= d)])

----------------------------------------------------------------------------
(* One run of the script, app.py:67-70 and 302-323, for the widget states   *)
(* sel (radio), steps (slider) and clicked (button).                        *)

RunScript(sel, steps, clicked) ==
    LET d == load_data(data_cache, files, DATA_FILE)
        s == load_model(resource_cache, files, SARIMA_MODEL_FILE)
        h == load_model(s.cache, files, HOLTWINTERS_MODEL_FILE)
        o == [EmptyOut EXCEPT
                !.ran = TRUE, !.page = sel,
                !.onDisk = [p \in Paths |-> files[p].kind],   \* the files as this run found them
                !.errors = {d.value.error, s.value.error, h.value.error} \ {<<>>}]
        r == IF sel = HomePage THEN home_page(o, s.value.model, h.value.model)
             ELSE IF sel = AnalysisPage
               THEN model_analysis_page(o, s.value.model, h.value.model, d.value.monthly)
             ELSE forecast_page(o, s.value.model, h.value.model, d.value.monthly,
                                steps, clicked)
    IN  /\ data_cache' = d.cache
        \* the cached objects are the ones the view worked on
        /\ resource_cache' =
              [p \in DOMAIN h.cache |->
                 IF IsNone(h.cache[p]) THEN None
                 ELSE Some([Val(h.cache[p]) EXCEPT
                              !.model = IF p = SARIMA_MODEL_FILE THEN r.sarima ELSE r.hw])]
        /\ bodyRuns' = [bodyRuns EXCEPT ![DATA_FILE] = @ + d.ran,
                                        ![SARIMA_MODEL_FILE] = @ + s.ran,
                                        ![HOLTWINTERS_MODEL_FILE] = @ + h.ran]
        /\ df_raw' = d.value.raw
        /\ df_daily' = d.value.daily
        /\ df_monthly' = d.value.monthly
        /\ sarima_model' = r.sarima
        /\ hw_model' = r.hw
        /\ selection' = sel
        \* a widget that was not rendered loses its state
        /\ periods' = IF r.view.slider THEN steps ELSE DefaultPeriods
        /\ out' = IF r.view.exception # "" THEN r.view
                  ELSE [r.view EXCEPT !.footer = Footer(d.value.raw)]

(* a browser session opens the app: widgets at their defaults *)
OpenSession ==
    /\ RunScript(HomePage, DefaultPeriods, FALSE)
    /\ UNCHANGED <<files, envChanges>>

(* the user picks another page in the sidebar radio *)
SelectPage ==
    /\ out.ran
    /\ \E p \in Pages \ {selection} : RunScript(p, periods, FALSE)
    /\ UNCHANGED <<files, envChanges>>

(* the user moves the slider, app.py:200-206 *)
MoveSlider ==
    /\ out.slider
    /\ \E v \in (MinPeriods..MaxPeriods) \ {periods} : RunScript(selection, v, FALSE)
    /\ UNCHANGED <<files, envChanges>>

(* the user presses "Jalankan Peramalan", app.py:208 *)
PressButton ==
    /\ out.button
    /\ RunScript(selection, periods, TRUE)
    /\ UNCHANGED <<files, envChanges>>

(* the world outside: a file is deleted, or a missing or unreadable file is *)
(* put in place                                                             *)
EnvChange ==
    /\ envChanges < MaxEnvChanges
    /\ \E p \in Paths :
          files' = [files EXCEPT ![p] = IF @.kind = "ok" THEN Missing ELSE BaseFile(p)]
    /\ envChanges' = envChanges + 1
    /\ UNCHANGED <<data_cache, resource_cache, bodyRuns, df_raw, df_daily, df_monthly,
                   sarima_model, hw_model, selection, periods, out>>

Init ==
    /\ \E d \in {Missing, Corrupt, Content(BaseData)},
          s \in {Missing, Corrupt} \cup {Content(a) : a \in SarimaArtifacts},
          h \in {Missing, Corrupt} \cup {Content(a) : a \in HWArtifacts} :
          files = [p \in Paths |-> IF p = DATA_FILE THEN d
                                   ELSE IF p = SARIMA_MODEL_FILE THEN s ELSE h]
    /\ InitCommon

Next == OpenSession \/ SelectPage \/ MoveSlider \/ PressButton \/ EnvChange

Spec == Init /\ [][Next]_vars

----------------------------------------------------------------------------
(* Properties of load_data.                                                 *)

RECURSIVE SumQty(_, _)
(* sum of Qty over the rows of s at the indices in I *)
SumQty(s, I) ==
    IF I = {} THEN 0
    ELSE LET i == CHOOSE j \in I : TRUE IN s[i].Qty + SumQty(s, I \ {i})

RawDays == {Val(df_raw)[i].Tanggal : i \in 1..Len(Val(df_raw))}
FirstDay == CHOOSE d \in RawDays : \A e \in RawDays : d <= e
LastDay == CHOOSE d \in RawDays : \A e \in RawDays : e <= d

(* C2: the daily series has exactly d1 - d0 + 1 entries, one per calendar   *)
(* day from d0 to d1 in ascending order without gaps; each entry is the sum *)
(* of Qty over the raw records of that day, 0 for a day without a record.   *)
C2_DailySeries ==
    ~IsNone(df_daily) =>
        LET raw == Val(df_raw)
            daily == Val(df_daily)
        IN  /\ Len(daily) = LastDay - FirstDay + 1
            /\ \A i \in 1..Len(daily) :
                  /\ daily[i].Tanggal = FirstDay + i - 1
                  /\ daily[i].Qty =
                        SumQty(raw, {j \in 1..Len(raw) : raw[j].Tanggal = daily[i].Tanggal})

(* a loaded file with two rows on one day and a day in range with no row *)
C2_Witness ==
    /\ ~IsNone(df_daily)
    /\ \E j, k \in 1..Len(Val(df_raw)) :
          j # k /\ Val(df_raw)[j].Tanggal = Val(df_raw)[k].Tanggal
                /\ Val(df_raw)[j].Qty > 0 /\ Val(df_raw)[k].Qty > 0
    /\ \E i \in 1..Len(Val(df_daily)) :
          Val(df_daily)[i].Tanggal \notin RawDays /\ Val(df_daily)[i].Qty = 0

(* C3: every monthly entry is the sum of the daily entries of that calendar *)
(* month, there is exactly one entry per calendar month from the first to   *)
(* the last observed month, and the monthly total is the raw total.         *)
C3_MonthlySeries ==
    ~IsNone(df_monthly) =>
        LET raw == Val(df_raw)
            daily == Val(df_daily)
            monthly == Val(df_monthly)
        IN  /\ Len(monthly) = MonthOf(LastDay) - MonthOf(FirstDay) + 1
            /\ \A i \in 1..Len(monthly) :
                  /\ monthly[i].Bulan = MonthOf(FirstDay) + i - 1
                  /\ monthly[i].Qty =
                        SumQty(daily, {j \in 1..Len(daily) :
                                          MonthOf(daily[j].Tanggal) = monthly[i].Bulan})
            /\ SumQty(monthly, 1..Len(monthly)) = SumQty(raw, 1..Len(raw))

(* three months loaded, the middle one without any sale, a sale on the last *)
(* day of a month                                                           *)
C3_Witness ==
    /\ ~IsNone(df_monthly)
    /\ Len(Val(df_monthly)) = 3
    /\ Val(df_monthly)[1].Qty > 0
    /\ Val(df_monthly)[2].Qty = 0
    /\ Val(df_monthly)[3].Qty > 0

----------------------------------------------------------------------------
(* Properties of the views.                                                 *)

SarimaError == <<"Gagal melakukan peramalan SARIMA", "">>
HWError == <<"Gagal melakukan peramalan Holt-Winters", "">>
SarimaColumns == <<"SARIMA Prediksi (Qty)", "SARIMA Batas Bawah", "SARIMA Batas Atas">>
HWColumns == <<"Holt-Winters Prediksi (Qty)">>

(* the last run rendered the forecast view and the button was pressed *)
ForecastRan == out.page = ForecastPage /\ "sarima_model.get_forecast" \in out.calls
SarimaFailed == Val(sarima_model).raises \/ Val(sarima_model).forecastIndex # "period"
HWFailed == Val(hw_model).raises \/ Val(hw_model).forecastIndex # "period"

NextKey(k) == IF k[2] = 12 THEN <<k[1] + 1, 1>> ELSE <<k[1], k[2] + 1>>
KeyLess(a, b) == a[1] < b[1] \/ (a[1] = b[1] /\ a[2] < b[2])
KeyOfMonth(m) == <<m \div 12, (m % 12) + 1>>
TableShown == ForecastRan /\ ~IsNone(out.table)
RowsContiguous(keys) ==
    /\ Len(keys) = periods
    /\ periods \in MinPeriods..MaxPeriods
    /\ \A i \in 1..(Len(keys) - 1) :
          keys[i + 1] = NextKey(keys[i]) /\ KeyLess(keys[i], keys[i + 1])

(* C4 as claimed: the table has periods rows with strictly increasing,      *)
(* contiguous month keys, the first one month after the last month of the   *)
(* loaded monthly series.                                                   *)
C4_StartsAfterLoadedSeries ==
    TableShown =>
        /\ RowsContiguous(Val(out.table).index)
        /\ Val(out.table).index[1] =
              NextKey(KeyOfMonth(Val(df_monthly)[Len(Val(df_monthly))].Bulan))

(* C4 amended: the table has periods rows with strictly increasing,         *)
(* contiguous month keys, the first one month after the last month of the   *)
(* series the SARIMA model was fitted on.                                   *)
C4_StartsAfterTrainingSeries ==
    TableShown =>
        /\ RowsContiguous(Val(out.table).index)
        /\ Val(out.table).index[1] = NextKey(KeyOfMonth(Val(sarima_model).trainEnd))

(* a table of twelve rows from a SARIMA model fitted on a series that ends  *)
(* before the loaded one, next to a Holt-Winters model fitted on all of it   *)
C4_Witness ==
    /\ TableShown
    /\ periods = MaxPeriods
    /\ Val(sarima_model).trainEnd < Val(df_monthly)[Len(Val(df_monthly))].Bulan
    /\ Val(hw_model).trainEnd = Val(df_monthly)[Len(Val(df_monthly))].Bulan

(* C5: in one forecast request the Holt-Winters forecast is attempted       *)
(* whether or not the SARIMA forecast raised, each failure is reported by   *)
(* its own message, and no failure leaves the page render.                  *)
C5_ForecastFailuresIsolated ==
    ForecastRan =>
        /\ "hw_model.forecast" \in out.calls
        /\ SarimaError \in out.errors <=> SarimaFailed
        /\ HWError \in out.errors <=> HWFailed
        /\ out.exception = ""

(* the SARIMA forecast raised and the Holt-Winters one was made and worked *)
C5_Witness ==
    /\ ForecastRan
    /\ Val(sarima_model).raises
    /\ ~HWFailed
    /\ "hw_model.forecast" \in out.calls
    /\ out.errors = {SarimaError}

DataNotFound == <<"File data tidak ditemukan", DATA_FILE>>

(* C6: when the data file was not found, load_data returned no raw, daily   *)
(* or monthly result and an inline error, and the render completes for any  *)
(* page: the analysis and forecast views warn, the footer is omitted.       *)
C6_MissingDataFile ==
    (out.ran /\ DataNotFound \in out.errors) =>
        /\ IsNone(df_raw) /\ IsNone(df_daily) /\ IsNone(df_monthly)
        /\ out.exception = ""
        /\ out.page \in {AnalysisPage, ForecastPage} => out.warning
        /\ out.page = HomePage => ~out.warning
        /\ ~out.slider /\ ~out.fitChart
        /\ IsNone(out.footer)

(* both models loaded, the data file missing, the forecast view rendered *)
C6_Witness ==
    /\ out.ran /\ DataNotFound \in out.errors
    /\ ~IsNone(sarima_model) /\ ~IsNone(hw_model)
    /\ out.page = ForecastPage /\ out.warning

(* C7: the body of load_data and of load_model runs at most once per path,  *)
(* and every render works on the first result, a failed load included.      *)
C7_LoadedOnce ==
    /\ \A p \in Paths : bodyRuns[p] <= 1
    /\ out.ran =>
          /\ \A p \in Paths : bodyRuns[p] = 1
          /\ ~IsNone(data_cache[DATA_FILE])
          /\ \A p \in DOMAIN resource_cache : ~IsNone(resource_cache[p])
          /\ df_raw = Val(data_cache[DATA_FILE]).raw
          /\ df_daily = Val(data_cache[DATA_FILE]).daily
          /\ df_monthly = Val(data_cache[DATA_FILE]).monthly
          /\ sarima_model = Val(resource_cache[SARIMA_MODEL_FILE]).model
          /\ hw_model = Val(resource_cache[HOLTWINTERS_MODEL_FILE]).model

(* a render that found the SARIMA file on disk and still used the failed    *)
(* load of an earlier run                                                   *)
C7_Witness ==
    /\ out.ran
    /\ out.onDisk[SARIMA_MODEL_FILE] = "ok"
    /\ IsNone(sarima_model)
    /\ bodyRuns[SARIMA_MODEL_FILE] = 1

(* C8 as claimed: no render changes a cached model object or the cached     *)
(* raw, daily and monthly series.                                           *)
C8_CachedObjectsUnchanged ==
    [][ /\ \A p \in DOMAIN data_cache :
              ~IsNone(data_cache[p]) => data_cache'[p] = data_cache[p]
        /\ \A p \in DOMAIN resource_cache :
              ~IsNone(resource_cache[p]) => resource_cache'[p] = resource_cache[p] ]_vars

(* C9 as claimed: a metric whose attribute is missing shows "N/A" and the   *)
(* metrics that are available on that model still show their values.        *)
MetricAttr(label) ==
    IF label = "AIC" THEN "aic" ELSE IF label = "BIC" THEN "bic" ELSE "sse"
ModelOf(name) == IF name = "SARIMA" THEN Val(sarima_model) ELSE Val(hw_model)
C9_AvailableMetricsShown ==
    out.page = AnalysisPage =>
        \A m \in out.metrics :
            m[3] = IF MetricAttr(m[2]) \in ModelOf(m[1]).attrs
                     THEN MetricAttr(m[2]) ELSE "N/A"

FitAttrs(name) == IF name = "SARIMA" THEN {"aic", "bic", "llf"} ELSE {"aic", "bic", "sse"}

(* C9 amended: when any of the three fit-quality attributes of a model is   *)
(* missing, reading them does not fail and every metric displayed for that  *)
(* model shows "N/A", those that are available too; a model with all three  *)
(* shows its values, whatever the other model lacks.                        *)
C9_AllOrNothing ==
    out.page = AnalysisPage =>
        /\ \A m \in out.metrics :
              m[3] = IF FitAttrs(m[1]) \subseteq ModelOf(m[1]).attrs
                       THEN MetricAttr(m[2]) ELSE "N/A"
        /\ (~out.warning /\ {"order", "seasonal_order"} \subseteq Val(sarima_model).attrs)
              => {m \in out.metrics : m[1] = "SARIMA"} # {}

(* SARIMA lacks only llf: its AIC and BIC show "N/A", Holt-Winters shows    *)
(* its values                                                               *)
C9_Witness ==
    /\ out.page = AnalysisPage
    /\ ~IsNone(sarima_model)
    /\ Val(sarima_model).attrs = BaseSarima.attrs \ {"llf"}
    /\ <<"SARIMA", "AIC", "N/A">> \in out.metrics
    /\ <<"Holt-Winters", "AIC", "aic">> \in out.metrics

(* C10: when a model or the monthly series is absent, the analysis and the  *)
(* forecast view warn and return before touching a model or the monthly     *)
(* series: no metric, chart, slider, button, forecast call or table.        *)
C10_GuardedViews ==
    (out.page \in {AnalysisPage, ForecastPage}
       /\ (IsNone(sarima_model) \/ IsNone(hw_model) \/ IsNone(df_monthly))) =>
        /\ out.warning
        /\ out.touched = {} /\ out.metrics = {} /\ out.calls = {}
        /\ ~out.fitChart /\ ~out.slider /\ ~out.button
        /\ IsNone(out.table) /\ ~out.forecastChart
        /\ out.exception = ""

(* the analysis view rendered with both models loaded and no monthly series *)
C10_Witness ==
    /\ out.page = AnalysisPage
    /\ ~IsNone(sarima_model) /\ ~IsNone(hw_model) /\ IsNone(df_monthly)
    /\ out.warning

====
